---- MODULE Spec2Model ----
(***************************************************************************)
(* Model of src/code/stacked_autoencoder.py: the StackedAutoEncoder node,  *)
(* its layer-wise training (fit / fit_layer), its inference (transform /   *)
(* init_transform) and the synchronisation protocol between nodes          *)
(* (register_for / receive_data_from / check_input_buffer /                *)
(* emit_callbacks).  Calls are synchronous and recurse on one call stack,  *)
(* which the model keeps explicitly in the variable stack.                 *)
(***************************************************************************)
EXTENDS Integers, Sequences, FiniteSets, TLC

(* ---------------- bounds of the model ---------------- *)
MaxCalls == 2      \* top-level calls (fit, transform, receive, deliveries)
MaxRegs == 3       \* register_for calls

(* ---------------- the objects of a run ---------------- *)
Nodes == {"A", "B"}              \* StackedAutoEncoder instances
Sources == {"S1"}                \* InputLayer instances
Strangers == {"U"}               \* objects of any other class
Senders == Nodes \cup Sources \cup Strangers
RowCounts == {1, 2}              \* batch sizes of the arrays an input layer hands in

\* constructor arguments of the two nodes (dims, epoch, noise)
dims == [n \in Nodes |-> IF n = "A" THEN <<2, 1>> ELSE <<2>>]
epoch == [n \in Nodes |-> IF n = "A" THEN <<2, 1>> ELSE <<1>>]
noise == [n \in Nodes |-> IF n = "A" THEN "gaussian" ELSE "None"]
depth == [n \in Nodes |-> Len(dims[n])]

(* ---------------- values ---------------- *)
\* Python's None, and numpy arrays: rows x Len(cols); every column carries
\* the tag <<producer, emission id>> of the array it came from.
None == [nd |-> FALSE, rows |-> 0, cols |-> <<>>]
Array(r, c) == [nd |-> TRUE, rows |-> r, cols |-> c]
IsNdarray(v) == v.nd
Width(v) == Len(v.cols)
Repeat(x, k) == [i \in 1..k |-> x]

\* str(sender.__class__), as a sequence of pieces
ClassStr(s) ==
    IF s \in Nodes THEN <<"model.stacked_autoencoder.", "StackedAutoEncoder">>
    ELSE IF s \in Sources THEN <<"model.input_layer.", "InputLayer">>
    ELSE <<"<type '", "object", "'>">>
\* str.find: index of the first occurrence (0-based), -1 when there is none
Find(str, piece) ==
    IF \E i \in DOMAIN str : str[i] = piece
    THEN (CHOOSE i \in DOMAIN str : str[i] = piece /\ \A j \in 1..(i-1) : str[j] # piece) - 1
    ELSE -1
\* objects with a register_callback method
HasRegisterCallback(s) == s \in Sources

(* ---------------- the OrderedDict input_buffer ---------------- *)
Keys(buf) == [i \in DOMAIN buf |-> buf[i].key]
Contains(buf, s) == \E i \in DOMAIN buf : buf[i].key = s
GetItem(buf, s) == buf[CHOOSE i \in DOMAIN buf : buf[i].key = s].val
SetItem(buf, s, v) ==
    IF Contains(buf, s)
    THEN [i \in DOMAIN buf |-> IF buf[i].key = s THEN [key |-> s, val |-> v] ELSE buf[i]]
    ELSE Append(buf, [key |-> s, val |-> v])
\* (mutant) the values in reverse order of registration
ValuesReversed(buf) == [i \in DOMAIN buf |-> buf[Len(buf) + 1 - i].val]
Values(buf) == [i \in DOMAIN buf |-> buf[i].val]

VARIABLES
    iteration,        \* self.iteration
    layers,           \* self.layers: per layer, the variables of init_layer
    transform_op,     \* self.transform_op
    tf_inputs,        \* placeholders named 'input' in the node's transform scope
    last_activation,  \* self.last_activation
    callbacks,        \* self.callbacks
    input_buffer,     \* self.input_buffer
    src_callbacks,    \* callbacks registered on an InputLayer
    stack,            \* the call stack, top first
    err,              \* exception that ended the last top-level call
    warning,          \* last log.warning of the current top-level call
    emissions,        \* number of arrays emitted so far (their identities)
    fired,            \* per node, the fit_transform calls of check_input_buffer
    trainLog,         \* per node, the batch and the session runs of the last fit
    ncalls, nregs,    \* top-level calls made
    ctor,             \* a construction under way: its arguments and its outcome
    noising           \* an add_noise call under way: its arrays and its outcome

progVars == <<iteration, layers, transform_op, tf_inputs, last_activation,
              callbacks, input_buffer, src_callbacks>>
vars == <<iteration, layers, transform_op, tf_inputs, last_activation,
          callbacks, input_buffer, src_callbacks, stack, err, warning,
          emissions, fired, trainLog, ncalls, nregs, ctor, noising>>

NoValue == [rows |-> 0, width |-> 0, enc |-> 0, noisy |-> FALSE]
NoLayer == [init |-> FALSE, input_dim |-> 0, hidden_dim |-> 0]
NoOp == [built |-> FALSE, rows |-> 0, width |-> 0, ph |-> 0]

\* no construction is under way: the nodes of Nodes exist already
NoCtor == [pc |-> "none"]

\* the attributes of the nodes after __init__
InitNodes ==
    /\ iteration = [n \in Nodes |-> 0]
    /\ layers = [n \in Nodes |-> Repeat(NoLayer, depth[n])]
    /\ transform_op = [n \in Nodes |-> NoOp]
    /\ tf_inputs = [n \in Nodes |-> 0]
    /\ last_activation = [n \in Nodes |-> None]
    /\ callbacks = [n \in Nodes |-> <<>>]
    /\ input_buffer = [n \in Nodes |-> <<>>]
    /\ src_callbacks = [s \in Sources |-> <<>>]
    /\ stack = <<>>
    /\ err = "none"
    /\ warning = "none"
    /\ emissions = 0
    /\ fired = [n \in Nodes |-> <<>>]
    /\ trainLog = [n \in Nodes |-> [x |-> NoValue, runs |-> <<>>, ok |-> FALSE]]
    /\ ncalls = 0
    /\ nregs = 0

\* no add_noise call is looked at on its own
NoNoising == [pc |-> "none"]

Init == InitNodes /\ ctor = NoCtor /\ noising = NoNoising

(* ---------------- register_for ---------------- *)
\* (mutant) the freeze starts one iteration late
RegistrationOpenLate(n) == ~(iteration[n] > 1)
RegistrationOpen(n) == ~(iteration[n] > 0)

\* the body of register_for(sender) on node n
Register(n, s) ==
    IF ~RegistrationOpen(n)
    THEN /\ warning' = "already run"
         /\ err' = "none"
         /\ UNCHANGED <<callbacks, input_buffer, src_callbacks>>
    ELSE IF ClassStr(s) = ClassStr(n)
    THEN /\ callbacks' = [callbacks EXCEPT ![s] = Append(@, n)]
         /\ input_buffer' = [input_buffer EXCEPT ![n] = SetItem(@, s, None)]
         /\ warning' = "none"
         /\ err' = "none"
         /\ UNCHANGED src_callbacks
    ELSE IF Find(ClassStr(s), "InputLayer") # 0
    THEN IF HasRegisterCallback(s)
         THEN /\ src_callbacks' = [src_callbacks EXCEPT ![s] = Append(@, n)]
              /\ input_buffer' = [input_buffer EXCEPT ![n] = SetItem(@, s, None)]
              /\ warning' = "none"
              /\ err' = "none"
              /\ UNCHANGED callbacks
         ELSE /\ err' = "AttributeError: register_callback"
              /\ warning' = "none"
              /\ UNCHANGED <<callbacks, input_buffer, src_callbacks>>
    ELSE /\ warning' = "unknown sender"
         /\ err' = "none"
         /\ UNCHANGED <<callbacks, input_buffer, src_callbacks>>

(* ---------------- fit, init_layer, fit_layer ---------------- *)
\* The batch as fit sees it: its shape, the layer whose encoding it is
\* (0: the batch handed in) and whether noise went into it.
FitValue(x) == [rows |-> x.rows, width |-> Width(x), enc |-> 0, noisy |-> FALSE]

add_noise(n, x) == [x EXCEPT !.noisy = TRUE]

init_layer(lay, i, input_dim, hidden_dim) ==
    [lay EXCEPT ![i] = [init |-> TRUE, input_dim |-> input_dim, hidden_dim |-> hidden_dim]]

\* (mutant) the encoding returned is that of the corrupted input data_x
fit_layer_of_noisy(n, lay, i, data_x, data_x_, steps) ==
    IF ~lay[i].init THEN
        [err |-> "TypeError: run_op is None", log |-> <<>>, out |-> NoValue]
    ELSE IF data_x.width # lay[i].input_dim THEN
        [err |-> "ValueError: feed shape", log |-> <<>>, out |-> NoValue]
    ELSE
        [err |-> "none",
         log |-> Repeat([op |-> "run_op", layer |-> i, x |-> data_x, x_ |-> data_x_], steps)
                 \o <<[op |-> "encode_op", layer |-> i, x |-> data_x, x_ |-> NoValue]>>,
         out |-> [rows |-> data_x.rows, width |-> lay[i].hidden_dim,
                  enc |-> i, noisy |-> data_x.noisy]]

\* epoch runs of run_op fed (x: data_x, x_: data_x_), then one run of
\* encode_op fed (x: data_x_), whose result is returned
fit_layer(n, lay, i, data_x, data_x_, steps) ==
    IF ~lay[i].init THEN
        [err |-> "TypeError: run_op is None", log |-> <<>>, out |-> NoValue]
    ELSE IF data_x.width # lay[i].input_dim THEN
        [err |-> "ValueError: feed shape", log |-> <<>>, out |-> NoValue]
    ELSE
        [err |-> "none",
         log |-> Repeat([op |-> "run_op", layer |-> i, x |-> data_x, x_ |-> data_x_], steps)
                 \o <<[op |-> "encode_op", layer |-> i, x |-> data_x_, x_ |-> NoValue]>>,
         out |-> [rows |-> data_x_.rows, width |-> lay[i].hidden_dim,
                  enc |-> i, noisy |-> data_x_.noisy]]

\* (mutant) every fit initialises the layers again
RECURSIVE FitLoopAlwaysInit(_, _, _, _, _, _)
FitLoopAlwaysInit(n, i, x, lay, log, itr) ==
    IF i > depth[n] THEN [err |-> "none", layers |-> lay, log |-> log]
    ELSE LET lay1 == init_layer(lay, i, x.width, dims[n][i])
             r == IF noise[n] = "None"
                  THEN fit_layer(n, lay1, i, x, x, epoch[n][i])
                  ELSE fit_layer(n, lay1, i, add_noise(n, x), x, epoch[n][i])
         IN IF r.err # "none"
            THEN [err |-> r.err, layers |-> lay1, log |-> log \o r.log]
            ELSE FitLoopAlwaysInit(n, i + 1, r.out, lay1, log \o r.log, itr)

\* the loop of fit over the layers i..depth, itr being the incremented counter
RECURSIVE FitLoop(_, _, _, _, _, _)
FitLoop(n, i, x, lay, log, itr) ==
    IF i > depth[n] THEN [err |-> "none", layers |-> lay, log |-> log]
    ELSE LET lay1 == IF itr = 1 THEN init_layer(lay, i, x.width, dims[n][i]) ELSE lay
             r == IF noise[n] = "None"
                  THEN fit_layer(n, lay1, i, x, x, epoch[n][i])
                  ELSE fit_layer(n, lay1, i, add_noise(n, x), x, epoch[n][i])
         IN IF r.err # "none"
            THEN [err |-> r.err, layers |-> lay1, log |-> log \o r.log]
            ELSE FitLoop(n, i + 1, r.out, lay1, log \o r.log, itr)

fit(n, x) == FitLoop(n, 1, FitValue(x), layers[n], <<>>, iteration[n] + 1)

\* (mutant) only a fit that succeeds is counted
FitEffectCountsSuccess(n, x) ==
    /\ iteration' = [iteration EXCEPT ![n] = IF fit(n, x).err = "none" THEN @ + 1 ELSE @]
    /\ layers' = [layers EXCEPT ![n] = fit(n, x).layers]
    /\ trainLog' = [trainLog EXCEPT ![n] =
           [x |-> FitValue(x), runs |-> fit(n, x).log, ok |-> fit(n, x).err = "none"]]

\* the assignments of one fit call
FitEffect(n, x) ==
    /\ iteration' = [iteration EXCEPT ![n] = @ + 1]
    /\ layers' = [layers EXCEPT ![n] = fit(n, x).layers]
    /\ trainLog' = [trainLog EXCEPT ![n] =
           [x |-> FitValue(x), runs |-> fit(n, x).log, ok |-> fit(n, x).err = "none"]]

(* ---------------- transform, init_transform ---------------- *)
\* init_transform: a new placeholder 'input' of the shape of data, then
\* matmul(x, encode_weights) + encode_biases for every layer of lay
InitTransformFails(n, lay, data) ==
    \/ \E i \in 1..depth[n] : ~lay[i].init
    \/ depth[n] > 0 /\ Width(data) # lay[1].input_dim

NewTransformOp(n, data) ==
    [built |-> TRUE, rows |-> data.rows, width |-> Width(data), ph |-> tf_inputs[n]]

\* sess.run(self.transform_op, {name/transform/input:0: data})
RunTransformFails(op, data) ==
    \/ op.ph # 0
    \/ op.rows # data.rows
    \/ op.width # Width(data)

OutWidth(n, data) == IF depth[n] = 0 THEN Width(data) ELSE dims[n][depth[n]]
Transformed(n, data, e) == Array(data.rows, Repeat(<<n, e>>, OutWidth(n, data)))

\* transform up to its call of emit_callbacks, on the layers lay; e is the
\* identity of the array it returns
transform(n, lay, data, e) ==
    LET fresh == ~(transform_op[n].built)
        op == IF fresh THEN NewTransformOp(n, data) ELSE transform_op[n]
        tf == IF fresh THEN tf_inputs[n] + 1 ELSE tf_inputs[n]
    IN IF fresh /\ InitTransformFails(n, lay, data)
       THEN [err |-> "ValueError: init_transform", op |-> transform_op[n], tf |-> tf,
             out |-> last_activation[n]]
       ELSE IF RunTransformFails(op, data)
       THEN [err |-> "ValueError: transform feed", op |-> op, tf |-> tf,
             out |-> last_activation[n]]
       ELSE [err |-> "none", op |-> op, tf |-> tf, out |-> Transformed(n, data, e)]

(* ---------------- the call stack ---------------- *)
\* One frame stands for one activation of a node: fn is the method that was
\* called on it (receive_data_from, fit_transform or transform); at pc
\* "start" the call has not run yet, at pc "emit" it is inside the loop of
\* emit_callbacks, about to call callback number k with (node, data);
\* called lists the calls the loop has made so far.
Frame(fn, node, sender, data, pc, k, eid) ==
    [fn |-> fn, node |-> node, sender |-> sender, data |-> data,
     pc |-> pc, k |-> k, eid |-> eid, called |-> <<>>]
\* the frame of a loop of emit_callbacks after its call of callback j with
\* (node, data), the next callback being number k + 1
AfterCallback(f, j) ==
    [f EXCEPT !.k = @ + 1,
              !.called = Append(@, [to |-> callbacks[f.node][j], sender |-> f.node,
                                    data |-> f.data])]
Top == Head(stack)
Running(pc) == stack # <<>> /\ Top.pc = pc

\* arrays handed in from outside the graph: one column; the batch of a
\* direct fit, fit_transform or transform call has one row
ExtArray(r, who, e) == Array(r, <<<<who, e>>>>)
Batch == ExtArray(1, "ext", 0)

Begin(f) ==
    /\ stack = <<>>
    /\ ncalls < MaxCalls
    /\ ncalls' = ncalls + 1
    /\ stack' = <<f>>
    /\ err' = "none"
    /\ warning' = "none"
    /\ UNCHANGED <<iteration, layers, transform_op, tf_inputs, last_activation,
                   callbacks, input_buffer, src_callbacks, fired, trainLog, nregs,
                   ctor, noising>>

(* ---------------- top-level calls ---------------- *)
CallRegister(n, s) ==
    /\ stack = <<>>
    /\ nregs < MaxRegs
    /\ nregs' = nregs + 1
    /\ stack' = <<Frame("register_for", n, s, None, "start", 0, 0)>>
    /\ err' = "none"
    /\ warning' = "none"
    /\ UNCHANGED <<iteration, layers, transform_op, tf_inputs, last_activation,
                   callbacks, input_buffer, src_callbacks, emissions, fired, trainLog,
                   ncalls, ctor, noising>>

register_for ==
    /\ Running("start")
    /\ Top.fn = "register_for"
    /\ Register(Top.node, Top.sender)
    /\ stack' = Tail(stack)
    /\ UNCHANGED <<iteration, layers, transform_op, tf_inputs, last_activation,
                   emissions, fired, trainLog, ncalls, nregs, ctor, noising>>

CallFitTransform(n) ==
    /\ Begin(Frame("fit_transform", n, "-", Batch, "start", 0, 0))
    /\ UNCHANGED emissions

CallTransform(n) ==
    /\ Begin(Frame("transform", n, "-", Batch, "start", 0, 0))
    /\ UNCHANGED emissions

\* an input layer, or any caller, hands an array of its own to receive_data_from
CallReceive(n, s, r) ==
    /\ Begin(Frame("receive_data_from", n, s, ExtArray(r, s, emissions + 1),
                   "start", 0, emissions + 1))
    /\ emissions' = emissions + 1

CallFit(n) ==
    /\ Begin(Frame("fit", n, "-", Batch, "start", 0, 0))
    /\ UNCHANGED emissions

(* ---------------- fit_transform and transform, up to emit_callbacks -------- *)
\* transform(data) called on node n by the method fn, with rest the frames
\* below it; lay: the layers of n at that point
RunTransform(fn, n, sender, lay, data, rest) ==
    LET t == transform(n, lay, data, emissions + 1)
    IN /\ transform_op' = [transform_op EXCEPT ![n] = t.op]
       /\ tf_inputs' = [tf_inputs EXCEPT ![n] = t.tf]
       /\ last_activation' = [last_activation EXCEPT ![n] = t.out]
       /\ IF t.err # "none"
          THEN /\ stack' = <<>>
               /\ err' = t.err
               /\ emissions' = emissions
          ELSE /\ stack' = <<Frame(fn, n, sender, t.out, "emit", 1, emissions + 1)>> \o rest
               /\ err' = err
               /\ emissions' = emissions + 1

\* fit_transform(x) called on node n
RunFitTransform(fn, n, sender, x, rest) ==
    /\ FitEffect(n, x)
    /\ IF fit(n, x).err # "none"
       THEN /\ stack' = <<>>
            /\ err' = fit(n, x).err
            /\ UNCHANGED <<transform_op, tf_inputs, last_activation, emissions>>
       ELSE RunTransform(fn, n, sender, fit(n, x).layers, x, rest)

Fit ==
    /\ Running("start")
    /\ Top.fn = "fit"
    /\ FitEffect(Top.node, Top.data)
    /\ stack' = Tail(stack)
    /\ err' = fit(Top.node, Top.data).err
    /\ UNCHANGED <<transform_op, tf_inputs, last_activation, callbacks, input_buffer,
                   src_callbacks, warning, emissions, fired, ncalls, nregs, ctor, noising>>

fit_transform ==
    /\ Running("start")
    /\ Top.fn = "fit_transform"
    /\ RunFitTransform("fit_transform", Top.node, "-", Top.data, Tail(stack))
    /\ UNCHANGED <<callbacks, input_buffer, src_callbacks, warning, fired, ncalls, nregs,
                   ctor, noising>>

Transform ==
    /\ Running("start")
    /\ Top.fn = "transform"
    /\ RunTransform("transform", Top.node, "-", layers[Top.node], Top.data, Tail(stack))
    /\ UNCHANGED <<iteration, layers, trainLog, callbacks, input_buffer, src_callbacks,
                   warning, fired, ncalls, nregs, ctor, noising>>

(* ---------------- receive_data_from, check_input_buffer ---------------- *)
\* (mutant) the slot is never seen as full
BufferNeverFull(buf, s) == FALSE
BufferFull(buf, s) == IsNdarray(GetItem(buf, s))
BufferComplete(buf) == \A i \in DOMAIN buf : IsNdarray(buf[i].val)
\* (mutant) only the slot of the first key is cleared
ClearFirstSlot(buf) ==
    [i \in DOMAIN buf |-> IF i = 1 THEN [key |-> buf[i].key, val |-> None] ELSE buf[i]]
ClearBuffer(buf) == [i \in DOMAIN buf |-> [key |-> buf[i].key, val |-> None]]

RECURSIVE Flatten(_)
Flatten(seqs) == IF seqs = <<>> THEN <<>> ELSE Head(seqs) \o Flatten(Tail(seqs))

\* np.concatenate(tuple(data), axis=1)
concatenate(data) ==
    IF \E i \in DOMAIN data : data[i].rows # data[1].rows
    THEN [err |-> "ValueError: concatenate", out |-> None]
    ELSE [err |-> "none",
          out |-> Array(data[1].rows, Flatten([i \in DOMAIN data |-> data[i].cols]))]

\* receive_data_from(s, data) on node n, and the check_input_buffer it ends
\* with, up to the loop of emit_callbacks inside fit_transform; rest: the
\* frames to go on with when the call returns
Receive(n, s, data, eid, rest) ==
    LET buf == input_buffer[n]
        stored == SetItem(buf, s, data)
        batch == concatenate(Values(stored))
        NodeUnchanged == UNCHANGED <<iteration, layers, trainLog, transform_op,
                                     tf_inputs, last_activation, emissions>>
    IN IF ~Contains(buf, s)
       THEN /\ warning' = "not registered"
            /\ stack' = rest
            /\ err' = err
            /\ NodeUnchanged
            /\ UNCHANGED <<input_buffer, fired>>
       ELSE IF BufferFull(buf, s)
       THEN /\ warning' = "buffer full"
            /\ stack' = rest
            /\ err' = err
            /\ NodeUnchanged
            /\ UNCHANGED <<input_buffer, fired>>
       ELSE /\ input_buffer' = [input_buffer EXCEPT ![n] = stored]
            /\ warning' = warning
            /\ IF ~BufferComplete(stored)
               THEN /\ stack' = rest
                    /\ err' = err
                    /\ NodeUnchanged
                    /\ UNCHANGED fired
               ELSE IF batch.err # "none"
               THEN /\ stack' = <<>>
                    /\ err' = batch.err
                    /\ NodeUnchanged
                    /\ UNCHANGED fired
               ELSE /\ fired' = [fired EXCEPT ![n] =
                           Append(@, [eid |-> eid, sender |-> s, batch |-> batch.out])]
                    /\ RunFitTransform("receive_data_from", n, s, batch.out, rest)

\* (mutant) no check that the sender is registered: the array is stored
\* under a new key
receive_data_from_unchecked ==
    /\ Running("start")
    /\ Top.fn = "receive_data_from"
    /\ IF Contains(input_buffer[Top.node], Top.sender)
       THEN Receive(Top.node, Top.sender, Top.data, Top.eid, Tail(stack))
       ELSE /\ input_buffer' = [input_buffer EXCEPT
                                   ![Top.node] = SetItem(@, Top.sender, Top.data)]
            /\ stack' = Tail(stack)
            /\ UNCHANGED <<iteration, layers, trainLog, transform_op, tf_inputs,
                           last_activation, emissions, fired, err, warning>>
    /\ UNCHANGED <<callbacks, src_callbacks, ncalls, nregs, ctor, noising>>

receive_data_from ==
    /\ Running("start")
    /\ Top.fn = "receive_data_from"
    /\ Receive(Top.node, Top.sender, Top.data, Top.eid, Tail(stack))
    /\ UNCHANGED <<callbacks, src_callbacks, ncalls, nregs, ctor, noising>>

(* ---------------- emit_callbacks ---------------- *)
\* (mutant) the loop goes through the callbacks last to first
emit_callbacks_reversed ==
    /\ Running("emit")
    /\ Top.k <= Len(callbacks[Top.node])
    /\ LET j == Len(callbacks[Top.node]) + 1 - Top.k
       IN Receive(callbacks[Top.node][j], Top.node, Top.data, Top.eid,
                  <<AfterCallback(Top, j)>> \o Tail(stack))
    /\ UNCHANGED <<callbacks, src_callbacks, ncalls, nregs, ctor, noising>>

\* the next callback of the loop: receive_data_from of a subscriber
emit_callbacks ==
    /\ Running("emit")
    /\ Top.k <= Len(callbacks[Top.node])
    /\ Receive(callbacks[Top.node][Top.k], Top.node, Top.data, Top.eid,
               <<AfterCallback(Top, Top.k)>> \o Tail(stack))
    /\ UNCHANGED <<callbacks, src_callbacks, ncalls, nregs, ctor, noising>>

\* the loop is over: transform returns, and so does the fit_transform that
\* called it; in check_input_buffer the buffer is then cleared and
\* receive_data_from returns
Return ==
    /\ Running("emit")
    /\ Top.k > Len(callbacks[Top.node])
    /\ stack' = Tail(stack)
    /\ input_buffer' = IF Top.fn = "receive_data_from"
                       THEN [input_buffer EXCEPT ![Top.node] = ClearBuffer(@)]
                       ELSE input_buffer
    /\ UNCHANGED <<iteration, layers, transform_op, tf_inputs, last_activation,
                   callbacks, src_callbacks, err, warning, emissions, fired, trainLog,
                   ncalls, nregs, ctor, noising>>

(* ---------------- the specification ---------------- *)
Next ==
    \/ \E n \in Nodes, s \in Senders : CallRegister(n, s)
    \/ register_for
    \/ \E n \in Nodes : CallFit(n)
    \/ \E n \in Nodes : CallFitTransform(n)
    \/ \E n \in Nodes : CallTransform(n)
    \/ \E n \in Nodes, s \in Sources, r \in RowCounts : CallReceive(n, s, r)
    \/ Fit
    \/ fit_transform
    \/ Transform
    \/ receive_data_from
    \/ emit_callbacks
    \/ Return

Spec == Init /\ [][Next]_vars

(* ---------------- construction: __init__, assertions ---------------- *)
\* Python values: None, or a str as the sequence of its characters
PyNone == [none |-> TRUE, s |-> <<>>]
Str(chars) == [none |-> FALSE, s |-> chars]
\* an optional list argument (encoding_activations, decoding_activations)
NoList == [none |-> TRUE, v |-> <<>>]
List(v) == [none |-> FALSE, v |-> v]

gaussian == <<"g", "a", "u", "s", "s", "i", "a", "n">>
mask == <<"m", "a", "s", "k">>
banana == <<"b", "a", "n", "a", "n", "a">>

allowed_activations == {"sigmoid", "tanh", "softmax", "relu", "linear"}
allowed_noises == {PyNone, Str(gaussian), Str(mask)}
\* (mutant) 'mse' is taken for a loss too
allowed_losses_with_mse == {"rmse", "cross-entropy", "mse"}
allowed_losses == {"rmse", "cross-entropy"}

\* str.split(sep), sep one character
RECURSIVE Split(_, _)
Split(str, sep) ==
    IF \A i \in DOMAIN str : str[i] # sep THEN <<str>>
    ELSE LET k == CHOOSE i \in DOMAIN str : str[i] = sep /\ \A j \in 1..(i - 1) : str[j] # sep
         IN <<SubSeq(str, 1, k - 1)>> \o Split(SubSeq(str, k + 1, Len(str)), sep)

\* piece in str
IsSubstring(piece, str) ==
    \E i \in 1..(Len(str) - Len(piece) + 1) : SubSeq(str, i, i + Len(piece) - 1) = piece

Digits == <<"0", "1", "2", "3", "4", "5", "6", "7", "8", "9">>
IsDigit(c) == \E i \in DOMAIN Digits : Digits[i] = c
DigitValue(c) == (CHOOSE i \in DOMAIN Digits : Digits[i] = c) - 1
RECURSIVE Number(_)
Number(ds) ==
    IF ds = <<>> THEN 0
    ELSE Number(SubSeq(ds, 1, Len(ds) - 1)) * 10 + DigitValue(ds[Len(ds)])
RECURSIVE Pow10(_)
Pow10(k) == IF k = 0 THEN 1 ELSE 10 * Pow10(k - 1)

\* float(str) for strings of digits, '.' and letters: the value num / den,
\* or ValueError (also for the empty string)
float(str) ==
    LET dots == {i \in DOMAIN str : str[i] = "."}
        digits == SelectSeq(str, IsDigit)
    IN IF \/ digits = <<>>
          \/ Cardinality(dots) > 1
          \/ \E i \in DOMAIN str : ~IsDigit(str[i]) /\ str[i] # "."
       THEN [err |-> TRUE, num |-> 0, den |-> 1]
       ELSE [err |-> FALSE,
             num |-> Number(digits),
             den |-> IF dots = {} THEN 1
                     ELSE Pow10(Len(str) - (CHOOSE i \in dots : TRUE))]

\* the truth value of what noise_validator returns (None counts as False;
\* an exception inside is caught and gives False)
noise_validator(noise_) ==
    IF noise_ \in allowed_noises THEN TRUE
    ELSE IF noise_.none THEN FALSE
    ELSE LET parts == Split(noise_.s, "-")
         IN IF parts[1] # mask THEN FALSE
            ELSE IF Len(parts) < 2 THEN FALSE
            ELSE IF float(parts[2]).err THEN FALSE
            ELSE IF float(parts[2]).num = 0 THEN FALSE
            ELSE float(parts[2]).num >= 0 /\ float(parts[2]).num <= float(parts[2]).den

\* assertions on the arguments a of __init__: the first assert that fails
assertions(a) ==
    IF a.loss \notin allowed_losses THEN "AssertionError: Incorrect loss given"
    ELSE IF a.dimsType # "list" THEN "AssertionError: dims must be a list"
    ELSE IF Len(a.epoch) # Len(a.dims) THEN "AssertionError: No. of epochs must equal"
    ELSE IF \E i \in DOMAIN a.epoch : ~(a.epoch[i] > 0)
         THEN "AssertionError: No. of epoch must be atleast 1"
    ELSE IF ~noise_validator(a.noise) THEN "AssertionError: Incorrect noise given"
    ELSE "none"

\* the arguments a construction is tried with
LossInputs == {"rmse", "cross-entropy", "mse"}
DimsInputs == {<<>>, <<2>>, <<2, 1>>}
DimsTypeInputs == {"list", "tuple"}
EpochInputs == {<<>>, <<1>>, <<0>>, <<2, 1>>, <<1, 0>>, <<1, 1, 1>>}
NoiseInputs ==
    {PyNone, Str(gaussian), Str(mask), Str(banana), Str(<<"s", "p">>),
     Str(mask \o <<"-">>), Str(mask \o <<"-", "0">>), Str(mask \o <<"-", "0", ".", "0">>),
     Str(mask \o <<"-", "0", ".", "5">>), Str(mask \o <<"-", "1">>),
     Str(mask \o <<"-", "1", ".", "0">>), Str(mask \o <<"-", "1", ".", "5">>),
     Str(mask \o <<"-", "a", "b", "c">>), Str(mask \o <<"-", "0", ".", "2", "5">>),
     Str(gaussian \o <<"-", "0", ".", "5">>)}
ActivationInputs == {<<"sigmoid", "linear">>, <<"tanh", "banana">>}
EncodingInputs == {NoList, List(<<"relu", "relu">>), List(<<"swish", "relu">>)}
DecodingInputs == {NoList, List(<<"softmax", "tanh">>), List(<<"relu", "swish">>)}

CtorArgs ==
    [loss : LossInputs, dimsType : DimsTypeInputs, dims : DimsInputs,
     epoch : EpochInputs, noise : NoiseInputs, activations : ActivationInputs,
     encoding_activations : EncodingInputs, decoding_activations : DecodingInputs]

\* self.encoding_activations / self.decoding_activations as __init__ sets them
EncodingActivations(a) ==
    IF a.encoding_activations.none THEN a.activations ELSE a.encoding_activations.v
DecodingActivations(a) ==
    IF a.decoding_activations.none THEN a.activations ELSE a.decoding_activations.v

\* activate(linear, name): the op it returns, or None when no branch matches
activate(name) == IF name \in allowed_activations THEN name ELSE "None"

\* add_noise(x) of a node whose noise is not None: the exception it ends
\* with, or what it returns
AddNoise(noise_) ==
    IF noise_ = Str(gaussian) THEN "array"
    ELSE IF IsSubstring(mask, noise_.s)
    THEN LET parts == Split(noise_.s, "-")
         IN IF Len(parts) < 2 THEN "IndexError: list index out of range"
            ELSE IF float(parts[2]).err THEN "ValueError: could not convert string to float"
            ELSE IF float(parts[2]).num > float(parts[2]).den
                 THEN "ValueError: Cannot take a larger sample than population"
            ELSE "array"
    ELSE "None"

\* the loop of the first fit of the constructed node, from layer i on: every
\* layer is built by init_layer, which calls activate for the encoding and
\* the decoding, then the batch gets its noise and the layer is trained.
\* called: the names activate has been called with.
RECURSIVE FirstFitLoop(_, _, _)
FirstFitLoop(a, i, called) ==
    IF i > Len(a.dims) THEN [err |-> "none", called |-> called]
    ELSE IF i > Len(EncodingActivations(a)) \/ i > Len(DecodingActivations(a))
    THEN [err |-> "IndexError: activations", called |-> called]
    ELSE LET enc == EncodingActivations(a)[i]
             dec == DecodingActivations(a)[i]
         IN IF activate(enc) = "None"
            THEN [err |-> "ValueError: matmul of None", called |-> called \cup {enc}]
            ELSE IF activate(dec) = "None"
            THEN [err |-> "ValueError: loss of None", called |-> called \cup {enc, dec}]
            ELSE IF ~a.noise.none /\ AddNoise(a.noise) # "array"
            THEN [err |-> IF AddNoise(a.noise) = "None"
                          THEN "TypeError: feed of None" ELSE AddNoise(a.noise),
                  called |-> called \cup {enc, dec}]
            ELSE FirstFitLoop(a, i + 1, called \cup {enc, dec})

\* StackedAutoEncoder(...): the assertions decide whether the node exists
Construct ==
    /\ ctor.pc = "args"
    /\ ctor' = [ctor EXCEPT !.pc = IF assertions(ctor.args) = "none"
                                    THEN "created" ELSE "failed",
                            !.err = assertions(ctor.args)]
    /\ UNCHANGED <<iteration, layers, transform_op, tf_inputs, last_activation,
                   callbacks, input_buffer, src_callbacks, stack, err, warning,
                   emissions, fired, trainLog, ncalls, nregs, noising>>

\* the first fit of the node just constructed
FirstFit ==
    /\ ctor.pc = "created"
    /\ ctor' = [ctor EXCEPT !.pc = "fitted",
                            !.err = FirstFitLoop(ctor.args, 1, {}).err,
                            !.called = FirstFitLoop(ctor.args, 1, {}).called]
    /\ UNCHANGED <<iteration, layers, transform_op, tf_inputs, last_activation,
                   callbacks, input_buffer, src_callbacks, stack, err, warning,
                   emissions, fired, trainLog, ncalls, nregs, noising>>

CtorInit ==
    /\ InitNodes
    /\ noising = NoNoising
    /\ ctor \in [pc : {"args"}, args : CtorArgs, err : {"none"}, called : {{}}]

CtorNext == Construct \/ FirstFit

CtorSpec == CtorInit /\ [][CtorNext]_vars

(* ---------------- add_noise on an array ---------------- *)
\* Arrays live on a heap, a sequence of matrices (rows of entries); an array
\* variable holds an index into it. The argument x of add_noise is array 1.
RowInputs == {1, 2}
WidthInputs == {1, 2, 3}
EntryInputs == {0, 1}
ArrayInputs ==
    UNION {[1..r -> [1..w -> EntryInputs]] : r \in RowInputs, w \in WidthInputs}
\* the noise of a constructed node for which add_noise is called
AddNoiseInputs == {ns \in NoiseInputs : ~ns.none /\ noise_validator(ns)}

\* np.copy(a): a new array with the entries of a
np_copy(heap, a) == [heap |-> Append(heap, heap[a]), id |-> Len(heap) + 1]

\* (mutant) the fraction of a row is cut off, not rounded
Truncate(num, den) == num \div den
\* round(num / den) of Python 2, num >= 0: halves go away from zero
Round(num, den) == (2 * num + den) \div (2 * den)

\* int(round(frac * len(i))) for frac = f.num / f.den and a row of width w
MaskCount(f, w) == Round(f.num * w, f.den)

\* add_noise(x) up to its loop: the branch on self.noise
add_noise_call ==
    /\ noising.pc = "call"
    /\ LET ns == noising.noise
           h == noising.heap
           x == noising.x
       IN IF ns = Str(gaussian)
          THEN noising' = [noising EXCEPT
                  !.pc = "returned",
                  !.heap = Append(h, [r \in DOMAIN h[x] |->
                                         [c \in DOMAIN h[x][r] |-> "x + n"]]),
                  !.out = Len(h) + 1]
          ELSE IF AddNoise(ns) = "None"
          THEN noising' = [noising EXCEPT !.pc = "returned", !.out = 0]
          ELSE IF AddNoise(ns) # "array"
          THEN noising' = [noising EXCEPT !.pc = "raised", !.err = AddNoise(ns)]
          ELSE noising' = [noising EXCEPT
                  !.pc = "loop",
                  !.frac = float(Split(ns.s, "-")[2]),
                  !.heap = np_copy(h, x).heap,
                  !.temp = np_copy(h, x).id,
                  !.row = 1]
    /\ UNCHANGED <<iteration, layers, transform_op, tf_inputs, last_activation,
                   callbacks, input_buffer, src_callbacks, stack, err, warning,
                   emissions, fired, trainLog, ncalls, nregs, ctor>>

\* one turn of `for i in temp`: n = np.random.choice(len(i), count,
\* replace=False) is any set of count distinct positions; i[n] = 0 writes
\* into the array temp, of which i is a view
MaskRow ==
    /\ noising.pc = "loop"
    /\ noising.row <= Len(noising.heap[noising.temp])
    /\ LET t == noising.temp
           i == noising.row
           w == Len(noising.heap[t][i])
       IN \E n \in SUBSET (1..w) :
            /\ Cardinality(n) = MaskCount(noising.frac, w)
            /\ noising' = [noising EXCEPT
                  !.heap[t][i] = [c \in 1..w |-> IF c \in n THEN 0 ELSE @[c]],
                  !.row = @ + 1]
    /\ UNCHANGED <<iteration, layers, transform_op, tf_inputs, last_activation,
                   callbacks, input_buffer, src_callbacks, stack, err, warning,
                   emissions, fired, trainLog, ncalls, nregs, ctor>>

\* the loop is over: return temp
add_noise_return ==
    /\ noising.pc = "loop"
    /\ noising.row > Len(noising.heap[noising.temp])
    /\ noising' = [noising EXCEPT !.pc = "returned", !.out = noising.temp]
    /\ UNCHANGED <<iteration, layers, transform_op, tf_inputs, last_activation,
                   callbacks, input_buffer, src_callbacks, stack, err, warning,
                   emissions, fired, trainLog, ncalls, nregs, ctor>>

NoiseInit ==
    /\ InitNodes
    /\ ctor = NoCtor
    /\ \E a \in ArrayInputs, ns \in AddNoiseInputs :
          noising = [pc |-> "call", noise |-> ns, heap |-> <<a>>, x |-> 1, x0 |-> a,
                     frac |-> [err |-> TRUE, num |-> 0, den |-> 1],
                     temp |-> 0, row |-> 0, out |-> 0, err |-> "none"]

NoiseNext == add_noise_call \/ MaskRow \/ add_noise_return

NoiseSpec == NoiseInit /\ [][NoiseNext]_vars

(* ======================= properties ======================= *)
Absent(buf) == {i \in DOMAIN buf : ~IsNdarray(buf[i].val)}
Present(buf, s) == \E i \in DOMAIN buf : buf[i].key = s /\ IsNdarray(buf[i].val)
AllAbsent(buf) == \A i \in DOMAIN buf : buf[i].val = None
FramesOf(m) == {i \in DOMAIN stack : stack[i].node = m /\ stack[i].fn # "register_for"}

\* the next step is the call receive_data_from(s, Top.data) on node m: a
\* direct call, or the next callback of the loop of emit_callbacks
ReceiveAt(m, s) ==
    /\ stack # <<>>
    /\ \/ /\ Top.pc = "start"
          /\ Top.fn = "receive_data_from"
          /\ Top.node = m
          /\ Top.sender = s
       \/ /\ Top.pc = "emit"
          /\ Top.k <= Len(callbacks[Top.node])
          /\ callbacks[Top.node][Top.k] = m
          /\ Top.node = s
\* the stack when that call has returned
AfterReceive ==
    IF Top.pc = "start" THEN Tail(stack) ELSE <<AfterCallback(Top, Top.k)>> \o Tail(stack)
\* the next step is the return of a receive_data_from call on node m that
\* ran fit_transform
ReceiveReturns(m) ==
    /\ Running("emit")
    /\ Top.fn = "receive_data_from"
    /\ Top.node = m
    /\ Top.k > Len(callbacks[m])

\* C1: on a node with at least two registered sources, a receive that leaves
\* a slot absent runs no fit_transform; the receive that fills the last
\* absent slot runs fit_transform exactly once (unless np.concatenate raises
\* on unequal row counts), and when that receive returns every slot of the
\* node is absent.
C1_BarrierFiring ==
    [][\A m \in Nodes, s \in Senders :
        /\ (ReceiveAt(m, s) /\ Len(input_buffer[m]) >= 2) =>
              /\ Absent(input_buffer'[m]) # {} =>
                    (fired'[m] = fired[m] /\ iteration'[m] = iteration[m])
              /\ (Absent(input_buffer[m]) # {}
                    /\ Absent(input_buffer'[m]) = {}
                    /\ err' # "ValueError: concatenate") =>
                    /\ Len(fired'[m]) = Len(fired[m]) + 1
                    /\ iteration'[m] = iteration[m] + 1
        /\ (ReceiveReturns(m) /\ Len(input_buffer[m]) >= 2) =>
              /\ AllAbsent(input_buffer'[m])
              /\ fired' = fired
              /\ iteration' = iteration
              /\ stack' = Tail(stack)
      ]_vars

\* C1 witness: a node with two sources has fired once and its receive has
\* returned, leaving both slots absent.
C1_Witness ==
    \E m \in Nodes :
        /\ Len(input_buffer[m]) >= 2
        /\ Len(fired[m]) = 1
        /\ stack = <<>>
        /\ err = "none"
        /\ AllAbsent(input_buffer[m])

\* C2: a receive for a registered upstream whose slot is present is dropped:
\* no slot of any node changes, no fit_transform runs, nothing is raised and
\* the call returns.
C2_DropOnFull ==
    [][\A m \in Nodes, s \in Senders :
        (ReceiveAt(m, s) /\ Present(input_buffer[m], s)) =>
            /\ input_buffer' = input_buffer
            /\ fired' = fired
            /\ iteration' = iteration
            /\ err' = err
            /\ stack' = AfterReceive
      ]_vars

\* C2 witness: a second array for a present slot has been dropped, the first
\* one is still stored.
C2_Witness ==
    /\ warning = "buffer full"
    /\ stack = <<>>
    /\ err = "none"
    /\ \E m \in Nodes : Present(input_buffer[m], "S1") /\ Absent(input_buffer[m]) # {}

\* C3 (as claimed): a slot goes from absent to present only in a receive for
\* its key, and from present to absent only in the flush of a full buffer.
C3_SlotTransitions ==
    [][\A m \in Nodes, s \in Senders :
        /\ (Contains(input_buffer[m], s) /\ ~Present(input_buffer[m], s)
              /\ Present(input_buffer'[m], s)) => ReceiveAt(m, s)
        /\ (Present(input_buffer[m], s) /\ ~Present(input_buffer'[m], s)) =>
              (ReceiveReturns(m) /\ Absent(input_buffer[m]) = {})
      ]_vars

IsPrefix(a, b) == Len(a) <= Len(b) /\ \A i \in DOMAIN a : a[i] = b[i]
RECURSIVE Collapse(_)
\* a sequence without the repetitions of adjacent elements
Collapse(q) ==
    IF Len(q) <= 1 THEN q
    ELSE IF q[1] = q[2] THEN Collapse(Tail(q)) ELSE <<q[1]>> \o Collapse(Tail(q))
Producers(batch) == [i \in DOMAIN batch.cols |-> batch.cols[i][1]]

\* C4: every batch handed to fit_transform by check_input_buffer holds the
\* stored arrays in the order in which their sources were registered,
\* whatever the order of delivery; register_for only appends keys, so the
\* order of the keys is the order of (first) registration.
C4_ConcatenationOrder ==
    /\ [](\A m \in Nodes : \A i \in DOMAIN fired[m] :
            Collapse(Producers(fired[m][i].batch)) = Keys(input_buffer[m]))
    /\ [][\A m \in Nodes : IsPrefix(Keys(input_buffer[m]), Keys(input_buffer'[m]))]_vars

\* C4 witness: a batch of two sources whose first-registered source
\* delivered after the second one.
C4_Witness ==
    \E m \in Nodes : \E i \in DOMAIN fired[m] :
        LET cols == fired[m][i].batch.cols
        IN /\ Len(input_buffer[m]) >= 2
           /\ cols[1][1] # cols[Len(cols)][1]
           /\ cols[1][2] > cols[Len(cols)][2]

\* C5: register_for on a node whose iteration is > 0 changes no input_buffer
\* and no callback list, logs the warning and raises nothing.
C5_RegisterAfterTraining ==
    [][(Running("start") /\ Top.fn = "register_for" /\ iteration[Top.node] > 0) =>
            /\ input_buffer' = input_buffer
            /\ callbacks' = callbacks
            /\ src_callbacks' = src_callbacks
            /\ warning' = "already run"
            /\ err' = "none"
            /\ stack' = Tail(stack)
      ]_vars

\* C5 witness: a registration on a trained node has been turned down.
C5_Witness ==
    /\ warning = "already run"
    /\ stack = <<>>
    /\ \E m \in Nodes : iteration[m] > 0

\* the subscriber graph: p calls back m
Edge(p, m) == \E i \in DOMAIN callbacks[p] : callbacks[p][i] = m
RECURSIVE ReachFrom(_)
ReachFrom(S) ==
    LET more == S \cup {m \in Nodes : \E p \in S : Edge(p, m)}
    IN IF more = S THEN S ELSE ReachFrom(more)
\* the edge from p to m lies on a cycle of the subscriber graph
OnCycle(p, m) == p \in Nodes /\ Edge(p, m) /\ p \in ReachFrom({m})
Flushing(m) ==
    {i \in DOMAIN stack : stack[i].node = m /\ stack[i].fn = "receive_data_from"
                          /\ stack[i].pc = "emit"}

\* the last fit_transform of m out of check_input_buffer was triggered by a
\* delivery along an edge of a cycle, and it has returned: the buffer of m
\* has been cleared since (an exception would have left every slot present)
CycleDeliveryReturned(m) ==
    /\ fired[m] # <<>>
    /\ OnCycle(fired[m][Len(fired[m])].sender, m)
    /\ Absent(input_buffer[m]) # {}

\* C6 (as claimed): once a delivery along an edge of a cycle has made its
\* receiver run fit_transform, the chain of calls never returns: the call
\* stack is never empty again without an exception.
C6_CycleNeverReturns ==
    \A m \in Nodes : (CycleDeliveryReturned(m) /\ err = "none") => stack # <<>>

\* C6 (amended): the recursion is bounded. A node has at most one
\* check_input_buffer in progress, during which all its slots are present
\* (so a receive that comes round the cycle to it is dropped), and at most
\* two activations in all, so the stack never holds more than two frames
\* per node.
C6_BoundedRecursion ==
    /\ \A m \in Nodes :
          /\ Cardinality(Flushing(m)) <= 1
          /\ Cardinality(FramesOf(m)) <= 2
          /\ Flushing(m) # {} => Absent(input_buffer[m]) = {}
    /\ Len(stack) <= 2 * Cardinality(Nodes)

\* C6 witness: a delivery went round a cycle, was dropped at the node whose
\* buffer was being flushed, and every call has returned.
C6_Witness ==
    /\ stack = <<>>
    /\ err = "none"
    /\ warning = "buffer full"
    /\ \E m \in Nodes : CycleDeliveryReturned(m) /\ Len(fired[m]) = 1

Range(q) == {q[i] : i \in DOMAIN q}

\* C7 (as claimed): one emission triggers at most one fit_transform at a
\* node, and its array is part of at most one batch of that node.
C7_NoDoubleFire ==
    \A m \in Nodes : \A i, j \in DOMAIN fired[m] :
        i < j => /\ fired[m][i].eid # fired[m][j].eid
                 /\ Range(fired[m][i].batch.cols) \cap Range(fired[m][j].batch.cols) = {}

\* C8 (as claimed): when no call is in progress, no node with registered
\* sources has all its slots present.
C8_NoStuckBuffer ==
    stack = <<>> =>
        \A m \in Nodes : input_buffer[m] # <<>> => Absent(input_buffer[m]) # {}

\* C9 (as claimed): transform on a node that was never trained returns an
\* array and raises nothing.
C9_TransformBeforeTraining ==
    [][(/\ Running("start")
        /\ Top.fn = "transform"
        /\ iteration[Top.node] = 0
        /\ \A i \in 1..depth[Top.node] : ~layers[Top.node][i].init) =>
            /\ err' = "none"
            /\ IsNdarray(last_activation'[Top.node])
      ]_vars

\* what layer i of node n is trained on in a fit of the batch x0: the clean
\* input is the batch (i = 1) or the encoding of the clean input of layer
\* i - 1; the corrupted input is the clean input with noise
CleanInput(n, i, x0) ==
    IF i = 1 THEN x0
    ELSE [rows |-> x0.rows, width |-> dims[n][i - 1], enc |-> i - 1, noisy |-> FALSE]
CorruptedInput(n, i, x0) ==
    IF noise[n] = "None" THEN CleanInput(n, i, x0)
    ELSE [CleanInput(n, i, x0) EXCEPT !.noisy = TRUE]
ExpectedRuns(n, x0) ==
    Flatten([i \in 1..depth[n] |->
        Repeat([op |-> "run_op", layer |-> i, x |-> CorruptedInput(n, i, x0),
                x_ |-> CleanInput(n, i, x0)], epoch[n][i])
        \o <<[op |-> "encode_op", layer |-> i, x |-> CleanInput(n, i, x0),
              x_ |-> NoValue]>>])

\* C10: a fit trains the layers in index order, layer i with epoch[i] runs
\* of its run_op on (corrupted, clean) input, all before the first run of
\* layer i + 1, whose input is the encoding of the clean input of layer i
\* computed after those runs.
C10_GreedyTraining ==
    \A n \in Nodes :
        /\ IsPrefix(trainLog[n].runs, ExpectedRuns(n, trainLog[n].x))
        /\ trainLog[n].ok => trainLog[n].runs = ExpectedRuns(n, trainLog[n].x)

\* C10 witness: node A (two layers, epoch <<2, 1>>, gaussian noise) has
\* completed a fit: 2 + 1 runs of run_op and 2 of encode_op.
C10_Witness ==
    /\ trainLog["A"].ok
    /\ Len(trainLog["A"].runs) = 5
    /\ trainLog["A"].runs[4].x.noisy
    /\ ~trainLog["A"].runs[4].x_.noisy

(* ---------------- construction ---------------- *)
Constructed == ctor.pc \in {"created", "fitted"}
\* the noise specs the specification calls valid: none, gaussian, or
\* mask(frac) with frac a real number in [0, 1]
MaskFraction(ns) ==
    IF ns.none THEN [err |-> TRUE, num |-> 0, den |-> 1]
    ELSE LET parts == Split(ns.s, "-")
         IN IF Len(parts) = 2 /\ parts[1] = mask THEN float(parts[2])
            ELSE [err |-> TRUE, num |-> 0, den |-> 1]
SpecValidNoise(ns) ==
    \/ ns = PyNone
    \/ ns = Str(gaussian)
    \/ ~MaskFraction(ns).err /\ MaskFraction(ns).num <= MaskFraction(ns).den
\* the other arguments are valid
SpecValidShape(a) ==
    /\ a.loss \in {"rmse", "cross-entropy"}
    /\ a.dimsType = "list"
    /\ Len(a.dims) >= 1
    /\ Len(a.epoch) = Len(a.dims)
    /\ \A i \in DOMAIN a.epoch : a.epoch[i] >= 1

\* C11 (as claimed): a node with an encoding or decoding activation name
\* outside the five known ones is never constructed, and activate is never
\* called with such a name.
C11_ActivationValidated ==
    /\ Constructed =>
          \A i \in DOMAIN ctor.args.dims :
              /\ EncodingActivations(ctor.args)[i] \in allowed_activations
              /\ DecodingActivations(ctor.args)[i] \in allowed_activations
    /\ ctor.called \subseteq {"sigmoid", "tanh", "relu", "linear", "softmax"}

\* C12 (as claimed): with the other arguments valid, construction succeeds
\* for noise none, gaussian and mask(frac) for every frac in [0, 1].
C12_ValidNoiseAccepted ==
    (ctor.pc # "args" /\ SpecValidShape(ctor.args) /\ SpecValidNoise(ctor.args.noise))
        => Constructed

\* C13 (as claimed): construction fails for every other noise spec, and the
\* first fit of a constructed node never fails in add_noise.
NoiseErrors ==
    {"IndexError: list index out of range",
     "ValueError: could not convert string to float",
     "ValueError: Cannot take a larger sample than population",
     "TypeError: feed of None"}
C13_InvalidNoiseRejected ==
    /\ (ctor.pc # "args" /\ ~SpecValidNoise(ctor.args.noise)) => ctor.pc = "failed"
    /\ ctor.pc = "fitted" => ctor.err \notin NoiseErrors

\* C14 (as claimed): no node is constructed with an empty dims.
C14_NonEmptyDims ==
    Constructed => Len(ctor.args.dims) >= 1

\* C20: construction fails when the loss is not rmse or cross-entropy, when
\* epoch and dims differ in length, or when an epoch entry is < 1; with loss
\* rmse, a list dims, an epoch of the same length with entries >= 1 and a
\* noise of none, gaussian or mask(frac), 0 < frac <= 1, it succeeds.
C20_LossAndSchedule ==
    ctor.pc # "args" =>
        /\ (\/ ctor.args.loss \notin {"rmse", "cross-entropy"}
            \/ Len(ctor.args.epoch) # Len(ctor.args.dims)
            \/ \E i \in DOMAIN ctor.args.epoch : ctor.args.epoch[i] < 1)
              => ctor.pc = "failed"
        /\ (/\ ctor.args.loss = "rmse"
            /\ ctor.args.dimsType = "list"
            /\ Len(ctor.args.epoch) = Len(ctor.args.dims)
            /\ \A i \in DOMAIN ctor.args.epoch : ctor.args.epoch[i] >= 1
            /\ SpecValidNoise(ctor.args.noise)
            /\ MaskFraction(ctor.args.noise).err \/ MaskFraction(ctor.args.noise).num > 0)
              => Constructed

\* C20 witness: a node with loss rmse, two layers, epoch <<2, 1>> and noise
\* mask-0.5 has been constructed.
C20_Witness ==
    /\ ctor.pc = "created"
    /\ ctor.args.loss = "rmse"
    /\ ctor.args.epoch = <<2, 1>>
    /\ ctor.args.noise = Str(mask \o <<"-", "0", ".", "5">>)

(* ---------------- topology, receive, layers, iteration ---------------- *)
\* C15 (as claimed): once the iteration of a node is > 0, neither the keys
\* of its input_buffer nor its callbacks change any more.
C15_TopologyFreeze ==
    [][\A n \in Nodes : iteration[n] > 0 =>
            /\ Keys(input_buffer'[n]) = Keys(input_buffer[n])
            /\ callbacks'[n] = callbacks[n]
      ]_vars

\* C16: receive_data_from for a sender that is no key of input_buffer logs
\* the warning, changes no slot and adds no key, runs no fit_transform,
\* raises nothing and returns.
C16_UnregisteredReceive ==
    [][\A m \in Nodes, s \in Senders :
        (ReceiveAt(m, s) /\ \A i \in DOMAIN input_buffer[m] : input_buffer[m][i].key # s) =>
            /\ input_buffer' = input_buffer
            /\ fired' = fired
            /\ iteration' = iteration
            /\ layers' = layers
            /\ err' = err
            /\ warning' = "not registered"
            /\ stack' = AfterReceive
      ]_vars

\* C16 witness: an array from the input layer, unregistered at a node that
\* has another source, has been turned down.
C16_Witness ==
    /\ warning = "not registered"
    /\ stack = <<>>
    /\ err = "none"
    /\ \E m \in Nodes : input_buffer[m] # <<>> /\ ~Contains(input_buffer[m], "S1")

\* the next step is a fit of node n: fit or fit_transform called directly,
\* or the fit_transform of check_input_buffer
FitsNext(n) ==
    \/ Running("start") /\ Top.fn \in {"fit", "fit_transform"} /\ Top.node = n
    \/ fired'[n] # fired[n]

\* C17: no layer is initialised before the first fit; the first fit
\* initialises every layer; afterwards no layer changes its input_dim or
\* hidden_dim; hidden_dim is dims[i], and input_dim of a layer after the
\* first is the dims of the layer before it.
C17_LazyLayerInit ==
    /\ [](\A n \in Nodes : \A i \in 1..depth[n] :
            /\ layers[n][i].init <=> iteration[n] >= 1
            /\ layers[n][i].init =>
                  /\ layers[n][i].hidden_dim = dims[n][i]
                  /\ i > 1 => layers[n][i].input_dim = dims[n][i - 1])
    /\ [][\A n \in Nodes : \A i \in 1..depth[n] :
            /\ layers[n][i].init => layers'[n][i] = layers[n][i]
            /\ (~layers[n][i].init /\ layers'[n][i].init) =>
                  (FitsNext(n) /\ iteration[n] = 0 /\ iteration'[n] = 1)
         ]_vars

\* C17 witness: node A was fitted on a batch two columns wide and then
\* again; its layers are those of the first fit.
C17_Witness ==
    /\ iteration["A"] >= 2
    /\ layers["A"][1].input_dim = 2
    /\ layers["A"][2].input_dim = 2
    /\ stack = <<>>

\* C19: iteration is 0 after construction; every fit of a node adds exactly
\* 1 to its iteration, whether it succeeds or raises, and no other step
\* changes it.
C19_IterationCounter ==
    /\ \A n \in Nodes : iteration[n] = 0
    /\ [][\A n \in Nodes :
            iteration'[n] = IF FitsNext(n) THEN iteration[n] + 1 ELSE iteration[n]
         ]_vars

\* C19 witness: a node whose second fit raised has iteration 2.
C19_Witness ==
    \E n \in Nodes :
        /\ iteration[n] = 2
        /\ ~trainLog[n].ok
        /\ stack = <<>>

\* the calls a loop of emit_callbacks of node n over data has made when its
\* next callback is number k: the callbacks 1..k-1, in the order of
\* subscription, each once, with (n, data)
CallsInOrder(n, data, k) ==
    [j \in 1..(k - 1) |-> [to |-> callbacks[n][j], sender |-> n, data |-> data]]

\* C18: transform trains nothing and leaves the node's input_buffer alone;
\* it stores its result in last_activation before any callback is called;
\* its loop calls the callbacks in subscription order, each once, with
\* (this node, result), and has called all of them when transform returns.
C18_TransformPublishes ==
    /\ [](\A i \in DOMAIN stack : stack[i].pc = "emit" =>
            stack[i].called = CallsInOrder(stack[i].node, stack[i].data, stack[i].k))
    /\ [][(Running("start") /\ Top.fn = "transform") =>
            /\ iteration' = iteration
            /\ layers' = layers
            /\ input_buffer' = input_buffer
            /\ stack' # <<>> =>
                  /\ Head(stack').pc = "emit"
                  /\ Head(stack').called = <<>>
                  /\ Head(stack').data = last_activation'[Top.node]
                  /\ IsNdarray(last_activation'[Top.node])
         ]_vars
    /\ [][(Running("emit") /\ Len(stack') < Len(stack) /\ err' = err) =>
            Top.called = CallsInOrder(Top.node, Top.data, Len(callbacks[Top.node]) + 1)
         ]_vars

\* C18 witness: a transform called directly is about to return, having
\* called its two subscribers.
C18_Witness ==
    /\ Len(stack) = 1
    /\ Top.fn = "transform"
    /\ Top.pc = "emit"
    /\ Len(Top.called) = 2
    /\ Top.called[1].to # Top.called[2].to
    /\ Top.k > Len(callbacks[Top.node])
    /\ err = "none"

(* ---------------- add_noise ---------------- *)
\* the columns of row r in which the array returned differs from what was
\* handed in, and those in which it is zero
Changed(r) ==
    {c \in DOMAIN noising.x0[r] : noising.heap[noising.out][r][c] # noising.x0[r][c]}
Zeroed(r) ==
    {c \in DOMAIN noising.x0[r] : noising.heap[noising.out][r][c] = 0}

\* C21: for a noise mask-frac, the array add_noise returns has in every row
\* some k distinct positions set to zero, k = frac x width rounded to the
\* nearest integer (halves up), and every other entry as handed in; the
\* array handed in is not the one returned and is not modified.
C21_MaskCorruption ==
    (noising.pc = "returned" /\ ~MaskFraction(noising.noise).err) =>
        /\ noising.out # noising.x
        /\ noising.heap[noising.x] = noising.x0
        /\ Len(noising.heap[noising.out]) = Len(noising.x0)
        /\ \A r \in DOMAIN noising.x0 :
              LET w == Len(noising.x0[r])
                  f == MaskFraction(noising.noise)
              IN \E S \in SUBSET (1..w) :
                    /\ 2 * Cardinality(S) * f.den - f.den <= 2 * f.num * w
                    /\ 2 * f.num * w < 2 * Cardinality(S) * f.den + f.den
                    /\ \A c \in 1..w :
                          noising.heap[noising.out][r][c] =
                              IF c \in S THEN 0 ELSE noising.x0[r][c]

\* C21 witness: mask-0.5 on two rows of three ones: two entries of each row
\* were zeroed, not the same two.
C21_Witness ==
    /\ noising.pc = "returned"
    /\ noising.noise = Str(mask \o <<"-", "0", ".", "5">>)
    /\ noising.x0 = <<<<1, 1, 1>>, <<1, 1, 1>>>>
    /\ Cardinality(Zeroed(1)) = 2
    /\ Cardinality(Zeroed(2)) = 2
    /\ Zeroed(1) # Zeroed(2)
    /\ Changed(1) = Zeroed(1)

(* ---------------- re-entry, unknown senders ---------------- *)
\* the fit_transform calls of node m that are on the call stack: called
\* directly, or by check_input_buffer inside receive_data_from
FitTransforms(m) ==
    {i \in DOMAIN stack : /\ stack[i].node = m
                          /\ stack[i].pc = "emit"
                          /\ stack[i].fn \in {"fit_transform", "receive_data_from"}}

\* C22 (as claimed): no node has two fit_transform calls on the call stack.
C22_NoReentry ==
    \A m \in Nodes : Cardinality(FitTransforms(m)) <= 1

\* C22 (amended): a node never has two fit_transform calls of
\* check_input_buffer on the stack, nor more than two fit_transform calls
\* in all; when it has two, the outer one is the fit_transform called
\* directly from outside (the bottom of the stack) and the inner one is the
\* one check_input_buffer made when the emission came round to the node.
C22_ReentryOnlyUnderDirectCall ==
    \A m \in Nodes :
        /\ Cardinality({i \in FitTransforms(m) : stack[i].fn = "receive_data_from"}) <= 1
        /\ Cardinality(FitTransforms(m)) <= 2
        /\ Cardinality(FitTransforms(m)) = 2 =>
              /\ stack[Len(stack)].node = m
              /\ stack[Len(stack)].fn = "fit_transform"
              /\ \A i \in FitTransforms(m) :
                    i < Len(stack) => stack[i].fn = "receive_data_from"

\* C22 witness: on the cycle of A registered for B and B registered for A
\* (no node registered for itself), a node is in a fit_transform called
\* directly and in one of check_input_buffer.
C22_Witness ==
    /\ \E m \in Nodes : Cardinality(FitTransforms(m)) = 2
    /\ Edge("A", "B")
    /\ Edge("B", "A")
    /\ \A m \in Nodes : ~Edge(m, m)

\* C23 (as claimed): register_for on an untrained node with a sender that
\* is neither a StackedAutoEncoder nor an InputLayer logs the warning of
\* the 'unknown sender' branch, adds no key, registers no callback and
\* raises nothing.
C23_UnknownSenderRejected ==
    [][(/\ Running("start")
        /\ Top.fn = "register_for"
        /\ iteration[Top.node] = 0
        /\ Top.sender \in Strangers) =>
            /\ warning' = "unknown sender"
            /\ err' = "none"
            /\ input_buffer' = input_buffer
            /\ callbacks' = callbacks
            /\ src_callbacks' = src_callbacks
      ]_vars

====
